---- MODULE Spec2Model ----
\* Chore Helper (custom_components/chore_helper): the Chore entity, its
\* startup / teardown coroutines, its mutating operations, the shared calendar
\* registry kept in hass.data, the date helpers the entity calls, and the
\* configuration flow handler with the validation and schema functions of
\* config_flow.py.
\*
\* Dates are day numbers counted from 2024-01-01 (day 0); datetimes are clock
\* ticks, TicksPerDay ticks to a day.  A persisted attribute value (JSON) is a
\* record [kind, v]; an absent Python value is None.
EXTENDS Integers, FiniteSets, Sequences, TLC

\* ------------------------------------------------------------------ bounds
NumEntities == 2
MaxNow == 1
MaxCalls == 2
MaxInstallCalls == 1
MaxRestarts == 1
TicksPerDay == 2
NumUsers == 1
MaxOverdueDays == 1
MaxFormNumber == 1

\* ------------------------------------------------------------------ values
None == -1

EntityIds == 1..NumEntities
Times == 0..MaxNow
DateOf(t) == t \div TicksPerDay
Midnight(d) == d * TicksPerDay
Users == 1..NumUsers

\* JSON values of a restored state's attribute map.  Text(i) is a string with
\* no further structure: Text(0) the empty string, Text(1) text that parses as
\* nothing, the others distinct literals
Missing == [kind |-> "missing", v |-> 0]
JNull == [kind |-> "null", v |-> 0]
Text(i) == [kind |-> "text", v |-> i]
DateStr(d) == [kind |-> "date_str", v |-> d]
DateTimeStr(t) == [kind |-> "datetime_str", v |-> t]
Number(n) == [kind |-> "number", v |-> n]
Bool(b) == [kind |-> "bool", v |-> IF b THEN 1 ELSE 0]
\* a datetime.date object (a value that is not JSON text)
DateVal(d) == [kind |-> "date", v |-> d]

\* dict.get(key): a missing key reads as None
Get(attributes, key) == IF attributes[key] = Missing THEN JNull ELSE attributes[key]
\* faulty variant of GetDefault: the default whatever the map holds
GetDefault_ignoring(attributes, key, default) == default
\* dict.get(key, default)
GetDefault(attributes, key, default) == IF attributes[key] = Missing THEN default ELSE attributes[key]
\* Python truthiness of a JSON value
Truthy(x) == ~(x.kind \in {"missing", "null"} \/ (x.kind \in {"text", "number", "bool"} /\ x.v = 0))

\* outcome of a call: a value, or the exception that escapes it
Ok(x) == [exc |-> "", val |-> x]
Raise(name) == [exc |-> name, val |-> None]

\* ------------------------------------------------------------------ helpers.py
\* datetime.fromisoformat: a datetime string, or a date-only string (midnight);
\* other text is a ValueError, a non-string a TypeError
datetime_fromisoformat(x) ==
    CASE x.kind = "datetime_str" -> Ok(x.v)
      [] x.kind = "date_str" -> Ok(Midnight(x.v))
      [] x.kind = "text" -> Raise("ValueError")
      [] OTHER -> Raise("TypeError")

\* date.fromisoformat: only a date-only string
date_fromisoformat(x) ==
    CASE x.kind = "date_str" -> Ok(x.v)
      [] x.kind \in {"datetime_str", "text"} -> Raise("ValueError")
      [] OTHER -> Raise("TypeError")

parse_optional_datetime(attributes, key) ==
    LET date_str == Get(attributes, key)
        r == datetime_fromisoformat(date_str)
    IN  IF Truthy(date_str)
        THEN IF r.exc = "ValueError" THEN Ok(None) ELSE r
        ELSE Ok(None)

\* helpers.parse_optional_date is called by chore.py and described in the
\* specification (Helper Library): absent instead of failing when the stored
\* value is missing or malformed
parse_optional_date(attributes, key) ==
    LET date_str == Get(attributes, key)
        r == date_fromisoformat(date_str)
    IN  IF Truthy(date_str) /\ r.exc = "" THEN r ELSE Ok(None)

\* to_date: None -> ValueError; date unchanged; otherwise date.fromisoformat
to_date(day) ==
    IF day.kind \in {"missing", "null"} THEN Raise("ValueError")
    ELSE IF day.kind = "date" THEN Ok(day.v)
    ELSE date_fromisoformat(day)

\* Frequency families of the configuration (const.FREQUENCY_OPTIONS)
BlankFamily == {"", "blank"}
DailyFamily == {"daily", "every-n-days", "after-n-days"}

\* helpers.calculate_next_due_date(configuration, last_completed) as the
\* specification describes it for the blank and daily families: base date is
\* the completion date (or start_date when never completed), advanced by
\* period days (1 for plain daily); absent for a manual or blank chore or
\* when a needed detail is missing.  The argument is the mapping the caller
\* passes.
helpers_calculate_next_due_date(configuration, last_completed) ==
    LET has(k) == k \in DOMAIN configuration
        base == IF last_completed # None THEN DateOf(last_completed)
                ELSE IF has("start_date") THEN configuration["start_date"]
                ELSE None
        freq == configuration["frequency"]
    IN  IF "manual" \in DOMAIN configuration /\ configuration["manual"] = TRUE THEN None
        ELSE IF freq \in BlankFamily THEN None
        ELSE IF freq \notin DailyFamily \/ base = None THEN None
        ELSE IF freq = "daily" THEN base + 1
        ELSE IF has("period") THEN base + configuration["period"]
        ELSE None

\* ------------------------------------------------------------------ state
VARIABLES
    config,     \* entity id -> config_entry.options of its configuration entry
    pc,         \* entity id -> position in the entity's lifecycle
    chore,      \* entity id -> the Chore object's fields
    hass,       \* hass.data[DOMAIN] and the host's record of the calls made to it
    stored,     \* entity id -> the state the host last recorded for the entity
    now,        \* latest clock reading
    restarts,   \* installation restarts so far
    last_call,  \* the latest call of a mutating operation and the number of
                \* such calls so far: <<entity id, name, count>>
    wizard      \* the configuration flow: its step, the entry it created, and
                \* the latest call made to config_flow.py

vars == <<config, pc, chore, hass, stored, now, restarts, last_call, wizard>>

AttributeKeys == {"days", "next_date", "last_completed", "last_updated", "overdue",
                  "overdue_days", "offset_dates", "add_dates", "remove_dates"}

NoAttributes == [k \in AttributeKeys |-> Missing]
NoState == [present |-> FALSE, state |-> Missing, attributes |-> NoAttributes]

\* Chore.__init__ with _initialize_dates, _initialize_attributes, _get_start_date
_get_start_date(start_date_str) ==
    LET r == to_date(start_date_str)
    IN  IF r.exc = "ValueError" THEN Ok(None) ELSE r

\* the exception that escapes Chore.__init__ ("" when the object is made): only
\* its last statement, the _get_start_date call, can raise
Chore_init_exc(options) == _get_start_date(options.start_date).exc

Chore_init(options) ==
    [ _hidden |-> options.hidden,
      _manual |-> options.manual,
      _offset_dates |-> GetDefault(options, "offset_dates", Text(0)),
      _add_dates |-> GetDefault(options, "add_dates", Text(0)),
      _remove_dates |-> GetDefault(options, "remove_dates", Text(0)),
      _next_due_date |-> None,
      _last_updated |-> None,
      last_completed |-> None,
      _days |-> JNull,
      _overdue |-> Bool(FALSE),
      _overdue_days |-> JNull,
      _frequency |-> "",
      _attr_state |-> JNull,
      _user |-> None,
      _start_date |-> _get_start_date(options.start_date).val ]

\* JSON form of an optional date / datetime held by the entity
DateJson(d) == IF d = None THEN JNull ELSE DateStr(d)
DateTimeJson(t) == IF t = None THEN JNull ELSE DateTimeStr(t)

\* Chore.extra_state_attributes, as the host serialises the map
extra_state_attributes(self) ==
    [k \in AttributeKeys |->
        CASE k = "last_completed" -> DateTimeJson(self.last_completed)
          [] k = "last_updated" -> DateTimeJson(self._last_updated)
          [] k = "overdue" -> self._overdue
          [] k = "overdue_days" -> self._overdue_days
          [] k = "next_date" -> DateJson(self._next_due_date)
          [] k = "offset_dates" -> self._offset_dates
          [] k = "add_dates" -> self._add_dates
          [] k = "remove_dates" -> self._remove_dates
          [] OTHER -> Missing]

\* the state object async_write_ha_state hands to the host: the entity's state
\* ("unknown" when it has none) and its attribute map
UnknownState == Text(2)
StateOf(self) ==
    [ present |-> TRUE,
      state |-> IF self._attr_state = JNull THEN UnknownState ELSE self._attr_state,
      attributes |-> extra_state_attributes(self) ]

\* Chore.native_value and Chore.native_unit_of_measurement
native_value(self) == self._attr_state
native_unit_of_measurement(self) == IF self._days = Number(1) THEN "day" ELSE "days"

\* ------------------------------------------------------------------ restore
\* faulty variant of _restore_state: _last_updated is read back from the
\* recorded state instead of being cleared
_restore_state_keeping_stamp(self, state) ==
    IF ~state.present THEN [exc |-> "", self |-> self]
    ELSE
    LET a == state.attributes
        s3 == [self EXCEPT !._attr_state = state.state,
                           !._last_updated = parse_optional_datetime(a, "last_updated").val,
                           !._days = Get(a, "days"),
                           !._next_due_date = parse_optional_date(a, "next_date").val,
                           !.last_completed = parse_optional_datetime(a, "last_completed").val,
                           !._overdue = GetDefault(a, "overdue", Bool(FALSE)),
                           !._overdue_days = Get(a, "overdue_days"),
                           !._offset_dates = GetDefault(a, "offset_dates", Text(0)),
                           !._add_dates = GetDefault(a, "add_dates", Text(0)),
                           !._remove_dates = GetDefault(a, "remove_dates", Text(0))]
    IN  [exc |-> parse_optional_datetime(a, "last_completed").exc, self |-> s3]

\* Chore._restore_state after async_get_last_state has answered: the fields are
\* assigned in source order, so an exception leaves the earlier ones assigned
_restore_state(self, state) ==
    IF ~state.present THEN [exc |-> "", self |-> self]
    ELSE
    LET a == state.attributes
        s1 == [self EXCEPT !._attr_state = state.state,
                           !._last_updated = None,
                           !._days = Get(a, "days")]
        nd == parse_optional_date(a, "next_date")
        s2 == [s1 EXCEPT !._next_due_date = nd.val]
        lc == parse_optional_datetime(a, "last_completed")
        s3 == [s2 EXCEPT !.last_completed = lc.val,
                         !._overdue = GetDefault(a, "overdue", Bool(FALSE)),
                         !._overdue_days = Get(a, "overdue_days"),
                         !._offset_dates = GetDefault(a, "offset_dates", Text(0)),
                         !._add_dates = GetDefault(a, "add_dates", Text(0)),
                         !._remove_dates = GetDefault(a, "remove_dates", Text(0))]
    IN  IF nd.exc # "" THEN [exc |-> nd.exc, self |-> s1]
        ELSE IF lc.exc # "" THEN [exc |-> lc.exc, self |-> s2]
        ELSE [exc |-> "", self |-> s3]

\* ------------------------------------------------------------------ calendar
\* EntitiesCalendarData (calendar.py): the set of registered entity ids
add_entity(entities, entity_id) == entities \cup {entity_id}
remove_entity(entities, entity_id) == entities \ {entity_id}

\* hass.data[DOMAIN] when the installation starts: the sensor platform's
\* registry holds the entities the platform set up; no calendar yet
InitHass ==
    [ calendar_present |-> FALSE,
      calendar_entities |-> {},
      sensor_platform |-> EntityIds,
      calendars_created |-> 0,
      forward_entry_setups |-> 0,
      state_writes |-> 0 ]

\* faulty variant of _create_calendar_if_needed: no presence check
_create_calendar_always(h) ==
    [h EXCEPT !.calendar_present = TRUE,
              !.calendar_entities = {},
              !.calendars_created = @ + 1,
              !.forward_entry_setups = @ + 1]

_create_calendar_if_needed(h) ==
    IF ~h.calendar_present
    THEN [h EXCEPT !.calendar_present = TRUE,
                   !.calendar_entities = {},
                   !.calendars_created = @ + 1,
                   !.forward_entry_setups = @ + 1]
    ELSE h

\* faulty variant of _add_to_calendar: no hidden check
_add_to_calendar_unconditional(self, entity_id, h) ==
    LET h1 == _create_calendar_if_needed(h)
    IN  [h1 EXCEPT !.calendar_entities = add_entity(@, entity_id)]

\* faulty variant of _add_to_calendar: the hidden test inverted
_add_to_calendar_inverted(self, entity_id, h) ==
    IF self._hidden
    THEN LET h1 == _create_calendar_if_needed(h)
         IN  [h1 EXCEPT !.calendar_entities = add_entity(@, entity_id)]
    ELSE h

_add_to_calendar(self, entity_id, h) ==
    IF ~self._hidden
    THEN LET h1 == _create_calendar_if_needed(h)
         IN  [h1 EXCEPT !.calendar_entities = add_entity(@, entity_id)]
    ELSE h

\* body of the coroutine _remove_from_calendar (KeyError when hass.data has no
\* calendar)
_remove_from_calendar(entity_id, h) ==
    IF h.calendar_present
    THEN [exc |-> "", hass |-> [h EXCEPT !.calendar_entities = remove_entity(@, entity_id)]]
    ELSE [exc |-> "KeyError", hass |-> h]

\* del hass.data[DOMAIN][SENSOR_PLATFORM][entity_id]
_remove_from_registry(entity_id, h) ==
    IF entity_id \in h.sensor_platform
    THEN [exc |-> "", hass |-> [h EXCEPT !.sensor_platform = @ \ {entity_id}]]
    ELSE [exc |-> "KeyError", hass |-> h]

\* ------------------------------------------------------------------ lifecycle
\* async_added_to_hass up to its suspension in the host (super().async_added_to_hass,
\* async_get_last_state)
async_added_to_hass(e) ==
    /\ pc[e] = "constructed"
    /\ pc' = [pc EXCEPT ![e] = "await_last_state"]
    /\ UNCHANGED <<config, chore, hass, stored, now, restarts, last_call, wizard>>

\* the rest of async_added_to_hass, which runs without suspension: the body of
\* _restore_state, then _add_to_calendar
async_added_to_hass_resume(e) ==
    /\ pc[e] = "await_last_state"
    /\ LET r == _restore_state(chore[e], stored[e])
       IN  /\ chore' = [chore EXCEPT ![e] = r.self]
           /\ IF r.exc = ""
              THEN /\ hass' = _add_to_calendar(r.self, e, hass)
                   /\ pc' = [pc EXCEPT ![e] = "active"]
              ELSE /\ hass' = hass
                   /\ pc' = [pc EXCEPT ![e] = "startup_failed"]
    /\ UNCHANGED <<config, stored, now, restarts, last_call, wizard>>

\* async_will_remove_from_hass up to its suspension in super(); it may be run
\* again for an entity that has been removed
async_will_remove_from_hass(e) ==
    /\ pc[e] \in {"active", "removed"}
    /\ pc' = [pc EXCEPT ![e] = "await_remove"]
    /\ UNCHANGED <<config, chore, hass, stored, now, restarts, last_call, wizard>>

\* the rest of async_will_remove_from_hass: _remove_from_registry(), then the
\* call self._remove_from_calendar(), which only makes a coroutine object: it
\* is not awaited, so its body never runs
async_will_remove_from_hass_resume(e) ==
    /\ pc[e] = "await_remove"
    /\ LET r == _remove_from_registry(e, hass)
           \* the coroutine object made by the call; nothing runs it
           coroutine == _remove_from_calendar(e, r.hass)
       IN  /\ hass' = r.hass
           /\ pc' = [pc EXCEPT ![e] = IF r.exc = "" THEN "removed" ELSE "remove_failed"]
    /\ UNCHANGED <<config, chore, stored, now, restarts, last_call, wizard>>

NoCall == <<0, "", 0>>

\* the platform setup constructs the entity: Chore(config_entry)
Construct(options) == IF Chore_init_exc(options) = "" THEN "constructed" ELSE "construct_failed"

\* the installation restarts: hass.data is fresh, every entity is constructed
\* again from its configuration entry, the recorded states survive (and the
\* counts of calls and state writes made so far go on)
Restart ==
    /\ restarts < MaxRestarts
    /\ restarts' = restarts + 1
    /\ hass' = [InitHass EXCEPT !.state_writes = hass.state_writes]
    /\ chore' = [e \in EntityIds |-> Chore_init(config[e])]
    /\ pc' = [e \in EntityIds |-> IF pc[e] = "unused" THEN "unused" ELSE Construct(config[e])]
    /\ last_call' = <<0, "", last_call[3]>>
    /\ UNCHANGED <<config, stored, now, wizard>>

\* ------------------------------------------------------------------ operations
\* faulty variant of update_state: the state is written, _last_updated is not
\* stamped
update_state_unstamped(e, self, t) ==
    /\ stored' = [stored EXCEPT ![e] = StateOf(self)]
    /\ hass' = [hass EXCEPT !.state_writes = @ + 1]
    /\ chore' = [chore EXCEPT ![e] = self]
    /\ now' = t

\* faulty variant of update_state: _last_updated is stamped before the state is
\* written
update_state_stamp_first(e, self, t) ==
    /\ stored' = [stored EXCEPT ![e] = StateOf([self EXCEPT !._last_updated = t])]
    /\ hass' = [hass EXCEPT !.state_writes = @ + 1]
    /\ chore' = [chore EXCEPT ![e] = [self EXCEPT !._last_updated = t]]
    /\ now' = t

\* update_state: async_write_ha_state(), then the stamp with datetime.now() = t.
\* The host records the state of an entity it holds; for an entity it has
\* removed the call returns without recording anything
update_state(e, self, t) ==
    /\ stored' = IF pc[e] = "removed" THEN stored ELSE [stored EXCEPT ![e] = StateOf(self)]
    /\ hass' = [hass EXCEPT !.state_writes = @ + 1]
    /\ chore' = [chore EXCEPT ![e] = [self EXCEPT !._last_updated = t]]
    /\ now' = t

\* a call of a mutating operation on a started entity, or on the object of an
\* entity that has been removed (the operations check nothing); the clock
\* readings it may take
CanCall(e, budget) == pc[e] \in {"active", "removed"} /\ last_call[3] < budget
Clock(t0, advance) == {t \in t0..MaxNow : t <= t0 + advance}

assign_user(e, user, budget, advance) ==
    /\ CanCall(e, budget)
    /\ \E t \in Clock(now, advance) :
          update_state(e, [chore[e] EXCEPT !._user = user], t)
    /\ last_call' = <<e, "assign_user", last_call[3] + 1>>
    /\ UNCHANGED <<config, pc, restarts, wizard>>

\* faulty variant of set_chore_completed: completing also clears the overdue
\* flag and count
set_chore_completed_clearing(e, completed_at, budget, advance) ==
    /\ CanCall(e, budget)
    /\ \E t1 \in Clock(now, advance) : \E t2 \in Clock(t1, advance) :
          update_state(e, [chore[e] EXCEPT !.last_completed =
                              IF completed_at # None THEN completed_at ELSE t1,
                                           !._overdue = Bool(FALSE),
                                           !._overdue_days = JNull], t2)
    /\ last_call' = <<e, "set_chore_completed", last_call[3] + 1>>
    /\ UNCHANGED <<config, pc, restarts, wizard>>

\* completed_at or datetime.now(): t1 is that clock reading, t2 update_state's
set_chore_completed(e, completed_at, budget, advance) ==
    /\ CanCall(e, budget)
    /\ \E t1 \in Clock(now, advance) : \E t2 \in Clock(t1, advance) :
          update_state(e, [chore[e] EXCEPT !.last_completed =
                              IF completed_at # None THEN completed_at ELSE t1], t2)
    /\ last_call' = <<e, "set_chore_completed", last_call[3] + 1>>
    /\ UNCHANGED <<config, pc, restarts, wizard>>

mark_overdue(e, overdue, overdue_days, budget, advance) ==
    /\ CanCall(e, budget)
    /\ \E t \in Clock(now, advance) :
          update_state(e, [chore[e] EXCEPT !._overdue = Bool(overdue),
                                           !._overdue_days = Number(overdue_days)], t)
    /\ last_call' = <<e, "mark_overdue", last_call[3] + 1>>
    /\ UNCHANGED <<config, pc, restarts, wizard>>

calculate_next_due_date(e, budget, advance) ==
    /\ CanCall(e, budget)
    /\ \E t \in Clock(now, advance) :
          update_state(e, [chore[e] EXCEPT !._next_due_date =
                              helpers_calculate_next_due_date(
                                  [frequency |-> chore[e]._frequency],
                                  chore[e].last_completed)], t)
    /\ last_call' = <<e, "calculate_next_due_date", last_call[3] + 1>>
    /\ UNCHANGED <<config, pc, restarts, wizard>>

\* ------------------------------------------------------------------ config_flow.py
\* Submitted form data is a record of the detail fields the validation reads;
\* a field holds Missing when the key is not in the mapping.  Strings: Text(0)
\* is "", NumText(n) the decimal digits of n, MonthDayStr(m, d) the zero-padded
\* "MM/DD", MonthDayShort(m, d) the unpadded "M/D" of one-digit m and d.
NumText(n) == [kind |-> "num_text", v |-> n]
MonthDayStr(m, d) == [kind |-> "month_day_str", v |-> 100 * m + d]
MonthDayShort(m, d) == [kind |-> "month_day_short", v |-> 100 * m + d]
ZeroSlashZero == MonthDayShort(0, 0)
Weekday == Text(6)
UserId == Text(7)
StrKinds == {"text", "num_text", "month_day_str", "month_day_short", "date_str", "datetime_str"}

\* helpers.month_day_text: "" for None or ""; otherwise the text is parsed with
\* strptime "%m/%d" (year 1900, so February has 28 days) and formatted back
DaysInMonth(m) == CASE m = 2 -> 28 [] m \in {4, 6, 9, 11} -> 30 [] OTHER -> 31
month_day_text(value) ==
    IF value \in {JNull, Text(0)} THEN Ok(Text(0))
    ELSE IF value.kind \notin StrKinds THEN Raise("TypeError")
    ELSE IF /\ value.kind \in {"month_day_str", "month_day_short"}
            /\ (value.v \div 100) \in 1..12
            /\ (value.v % 100) \in 1..DaysInMonth(value.v \div 100)
    THEN Ok(MonthDayStr(value.v \div 100, value.v % 100))
    ELSE Raise("Invalid")

\* outcome of _validate_config: the data mapping, which the function changes in
\* place, and the exception that escapes it with its error key
Returned(data) == [exc |-> "", error |-> "", data |-> data]
Raised(exc, error, data) == [exc |-> exc, error |-> error, data |-> data]

\* int(x)
int(x) ==
    CASE x.kind \in {"number", "num_text", "bool"} -> Ok(x.v)
      [] x.kind \in StrKinds -> Raise("ValueError")
      [] OTHER -> Raise("TypeError")

\* _validate_config, "Validate day of the month"
_validate_day_of_month(data) ==
    IF data.day_of_month = Missing THEN Returned(data)
    ELSE IF data.day_of_month.kind \notin {"number", "bool"} THEN Raised("TypeError", "", data)
    ELSE IF data.day_of_month.v < 1 THEN Returned([data EXCEPT !.day_of_month = JNull])
    ELSE Returned(data)

\* _validate_config, "Validate the date field"
_validate_date(data) ==
    IF data.date = Missing THEN Returned(data)
    ELSE IF data.date \in {NumText(0), ZeroSlashZero, Text(0)}
    THEN Returned([data EXCEPT !.date = JNull])
    ELSE LET r == month_day_text(data.date)
         IN  IF r.exc = "Invalid" THEN Raised("SchemaFlowError", "month_day", data)
             ELSE IF r.exc # "" THEN Raised(r.exc, "", data)
             ELSE Returned(data)

\* _validate_config, "Validate weekday order number"
_validate_weekday_order_number(data) ==
    IF data.weekday_order_number = Missing THEN Returned(data)
    ELSE LET n == int(data.weekday_order_number)
         IN  IF n.exc # "" THEN Raised(n.exc, "", data)
             ELSE IF n.val = 0 THEN Returned([data EXCEPT !.weekday_order_number = JNull])
             ELSE Returned(data)

\* faulty variant of _validate_chore_day: "0" is kept
_validate_chore_day_kept(data) == Returned(data)

\* _validate_config, "Validate chore day"
_validate_chore_day(data) ==
    IF data.chore_day # Missing /\ data.chore_day = NumText(0)
    THEN Returned([data EXCEPT !.chore_day = JNull])
    ELSE Returned(data)

\* _validate_config, "Ensure the selected user is valid": the value is stored back
_validate_user(data) ==
    IF data.user # Missing THEN Returned([data EXCEPT !.user = data.user])
    ELSE Returned(data)

_validate_config(data) ==
    LET r1 == _validate_day_of_month(data)
        r2 == IF r1.exc = "" THEN _validate_date(r1.data) ELSE r1
        r3 == IF r2.exc = "" THEN _validate_weekday_order_number(r2.data) ELSE r2
        r4 == IF r3.exc = "" THEN _validate_chore_day(r3.data) ELSE r3
    IN  IF r4.exc = "" THEN _validate_user(r4.data) ELSE r4

\* the other frequency families of const.py, as the specification lists them
WeeklyFamily == {"weekly", "every-n-weeks", "after-n-weeks"}
MonthlyFamily == {"monthly", "every-n-months", "after-n-months", "monthly-day"}
YearlyFamily == {"yearly", "every-n-years", "after-n-years"}
FrequencyOptions == BlankFamily \cup DailyFamily \cup WeeklyFamily \cup MonthlyFamily \cup YearlyFamily

\* a field of a form schema: vol.Required / vol.Optional key, the selector's
\* bounds (0, 0 when it has none) and its unit label
Field(key, is_required, min, max, unit) ==
    [key |-> key, required |-> is_required, min |-> min, max |-> max, unit |-> unit]

\* the uom dictionary of detail_config_schema; a missing key is a KeyError
uom(frequency) ==
    CASE frequency \in {"every-n-days", "after-n-days"} -> [exc |-> "", val |-> "day(s)"]
      [] frequency \in {"every-n-weeks", "after-n-weeks"} -> [exc |-> "", val |-> "week(s)"]
      [] frequency \in {"every-n-months", "after-n-months"} -> [exc |-> "", val |-> "month(s)"]
      [] frequency \in {"every-n-years", "after-n-years"} -> [exc |-> "", val |-> "year(s)"]
      [] OTHER -> [exc |-> "KeyError", val |-> ""]

\* detail_config_schema for handler.options.get(CONF_FREQUENCY) = frequency
detail_config_schema(frequency) ==
    LET periodic == DailyFamily \cup WeeklyFamily \cup MonthlyFamily \cup YearlyFamily
        period == IF frequency \in periodic
                  THEN {Field("period", TRUE, 1, 1000, uom(frequency).val)} ELSE {}
        yearly == IF frequency \in YearlyFamily
                  THEN {Field("date", FALSE, 0, 0, "")} ELSE {}
        monthly == IF frequency \in MonthlyFamily
                   THEN { Field("day_of_month", FALSE, 1, 31, ""),
                          Field("weekday_order_number", FALSE, 0, 0, ""),
                          Field("force_week_numbers", FALSE, 0, 0, ""),
                          Field("due_date_offset", FALSE, -7, 7, "day(s)") }
                   ELSE {}
        chore_day == IF frequency \in WeeklyFamily \cup MonthlyFamily
                     THEN {Field("chore_day", FALSE, 0, 0, "")} ELSE {}
        weekly == IF frequency \in WeeklyFamily
                  THEN {Field("first_week", TRUE, 1, 52, "weeks")} ELSE {}
        months == IF frequency \notin YearlyFamily
                  THEN { Field("first_month", FALSE, 0, 0, ""),
                         Field("last_month", FALSE, 0, 0, "") }
                  ELSE {}
        start_date == {Field("start_date", TRUE, 0, 0, "")}
    IN  IF frequency \in BlankFamily THEN [exc |-> "", fields |-> {}]
        ELSE IF frequency \in periodic /\ uom(frequency).exc # ""
        THEN [exc |-> uom(frequency).exc, fields |-> {}]
        ELSE [exc |-> "", fields |-> period \cup yearly \cup monthly \cup chore_day
                                        \cup weekly \cup months \cup start_date]

\* form data with no key, the outcome of a call, and the record of a call
NoData ==
    [ day_of_month |-> Missing, date |-> Missing, weekday_order_number |-> Missing,
      chore_day |-> Missing, user |-> Missing ]
Outcome(exc, error, data, fields, result) ==
    [exc |-> exc, error |-> error, data |-> data, fields |-> fields, result |-> result]
WizardCall(op, submitted, data, frequency, out) ==
    [op |-> op, submitted |-> submitted, data |-> data, frequency |-> frequency, out |-> out]

NoEntry == [present |-> FALSE, title |-> "", data |-> NoData]
NoWizard ==
    [ step |-> "",
      result |-> "",
      entry |-> NoEntry,
      call |-> WizardCall("", FALSE, NoData, "", Outcome("", "", NoData, {}, "")) ]

EntityVars == <<config, pc, chore, hass, stored, now, restarts, last_call>>

\* ChoreHelperConfigFlowHandler.async_step_user(user_input): submitted is
\* user_input is not None
async_step_user(submitted, user_input) ==
    /\ wizard.step # "done"
    /\ IF ~submitted
       THEN wizard' = [wizard EXCEPT !.step = "user", !.result = "form"]
       ELSE wizard' = [wizard EXCEPT !.step = "done", !.result = "create_entry",
                                     !.entry = [present |-> TRUE, title |-> "Chore Helper",
                                                data |-> user_input]]
    /\ UNCHANGED EntityVars

\* a call of _validate_config(handler, data); the functions keep no state, so
\* one call of one of them is followed in each behaviour
call_validate_config(data) ==
    /\ wizard.call.op = ""
    /\ LET r == _validate_config(data)
       IN  wizard' = [wizard EXCEPT !.call =
                         WizardCall("_validate_config", TRUE, data, "",
                                    Outcome(r.exc, r.error, r.data, {}, ""))]
    /\ UNCHANGED EntityVars

\* the mapping that _validate_config returned is submitted to it again (the
\* detail step of a reconfiguration starts from the stored options)
resubmit_validate_config ==
    /\ wizard.call.op = "_validate_config"
    /\ wizard.call.out.exc = ""
    /\ LET data == wizard.call.out.data
           r == _validate_config(data)
       IN  wizard' = [wizard EXCEPT !.call =
                         WizardCall("_validate_config again", TRUE, data, "",
                                    Outcome(r.exc, r.error, r.data, {}, ""))]
    /\ UNCHANGED EntityVars

\* a call of detail_config_schema(handler) with the frequency in handler.options
call_detail_config_schema(frequency) ==
    /\ wizard.call.op = ""
    /\ LET r == detail_config_schema(frequency)
       IN  wizard' = [wizard EXCEPT !.call =
                         WizardCall("detail_config_schema", FALSE, NoData, frequency,
                                    Outcome(r.exc, "", NoData, r.fields, ""))]
    /\ UNCHANGED EntityVars

\* ------------------------------------------------------------------ specifications
Frequencies == {"", "every-n-days"}

Options(hidden, manual, frequency) ==
    [ hidden |-> hidden, manual |-> manual, frequency |-> frequency,
      period |-> 3, start_date |-> DateStr(0),
      offset_dates |-> Missing, add_dates |-> Missing, remove_dates |-> Missing ]

\* configurations of the installation-wide specification and of the
\* single-entity one
InstallConfigs == {Options(h, FALSE, "every-n-days") : h \in BOOLEAN}
EntityConfigs == {Options(FALSE, m, f) : m \in BOOLEAN, f \in Frequencies}

\* a recorded state with the given next_date, last_completed and overdue
Recorded(next_date, last_completed, overdue) ==
    [ present |-> TRUE,
      state |-> UnknownState,
      attributes |-> [k \in AttributeKeys |->
          CASE k = "next_date" -> next_date
            [] k = "last_completed" -> last_completed
            [] k = "overdue" -> overdue
            [] k \in {"offset_dates", "add_dates", "remove_dates"} -> Text(0)
            [] OTHER -> Missing] ]

\* stored date attributes: missing, empty, unparseable text, a date string, a
\* datetime string, a number
DateAttributes == {Missing, Text(0), Text(1), DateStr(3), DateTimeStr(1), Number(5)}

InstallStates == {NoState, Recorded(DateStr(3), Number(5), Bool(FALSE))}
EntityStates ==
    {NoState, Recorded(DateStr(3), DateTimeStr(1), Bool(TRUE))}
    \cup {Recorded(n, DateTimeStr(1), Missing) : n \in DateAttributes}
    \cup {Recorded(DateStr(3), l, Missing) : l \in DateAttributes}

\* configurations that carry override strings or another start_date: absent, a
\* date object, malformed text, a number
OverrideConfig ==
    [Options(FALSE, FALSE, "every-n-days") EXCEPT
        !.offset_dates = Text(3), !.add_dates = Text(4), !.remove_dates = Text(5)]
StartDates == {Missing, DateVal(0), Text(1), Number(5)}
StartDateConfigs ==
    {[Options(FALSE, FALSE, "every-n-days") EXCEPT !.start_date = s] : s \in StartDates}

\* recorded states with other override strings, and one from before the
\* override strings were recorded
WithOverrides(state, offset_dates, add_dates, remove_dates) ==
    [state EXCEPT !.attributes["offset_dates"] = offset_dates,
                  !.attributes["add_dates"] = add_dates,
                  !.attributes["remove_dates"] = remove_dates]
OverrideStates ==
    { NoState,
      WithOverrides(Recorded(DateStr(3), DateTimeStr(1), Missing), Text(4), Text(5), Text(3)),
      WithOverrides(Recorded(DateStr(3), DateTimeStr(1), Missing), Missing, Missing, Missing) }

InitWith(E, Configs, States) ==
    /\ config \in [EntityIds -> Configs \cup {Options(FALSE, FALSE, "every-n-days")}]
    /\ \A e \in E : config[e] \in Configs
    /\ \A e \in EntityIds \ E : config[e] = Options(FALSE, FALSE, "every-n-days")
    /\ chore = [e \in EntityIds |-> Chore_init(config[e])]
    /\ pc = [e \in EntityIds |-> IF e \in E THEN Construct(config[e]) ELSE "unused"]
    /\ stored \in [EntityIds -> States]
    /\ \A e \in EntityIds \ E : stored[e] = NoState
    /\ hass = InitHass
    /\ now = 0
    /\ restarts = 0
    /\ last_call = NoCall
    /\ wizard = NoWizard

\* the entities of E that the host holds: it tears down and calls only these
Held(E) == {e \in E : pc[e] = "active"}

Step(E, U, CompletedAts, OverdueArgs, budget, advance) ==
    \/ \E e \in E : async_added_to_hass(e)
    \/ \E e \in E : async_added_to_hass_resume(e)
    \/ \E e \in Held(E) : async_will_remove_from_hass(e)
    \/ \E e \in E : async_will_remove_from_hass_resume(e)
    \/ Restart
    \/ \E e \in Held(E), user \in U : assign_user(e, user, budget, advance)
    \/ \E e \in Held(E), completed_at \in CompletedAts : set_chore_completed(e, completed_at, budget, advance)
    \/ \E e \in Held(E), a \in OverdueArgs : mark_overdue(e, a[1], a[2], budget, advance)
    \/ \E e \in Held(E) : calculate_next_due_date(e, budget, advance)

\* the installation: every entity, one value for each input
Init == InitWith(EntityIds, InstallConfigs, InstallStates)
Next == Step(EntityIds, {1}, {None}, {<<TRUE, 1>>}, MaxInstallCalls, 0)
Spec == Init /\ [][Next]_vars

\* one visible entity, every input
InitEntity ==
    \/ InitWith({1}, EntityConfigs, EntityStates)
    \/ InitWith({1}, {OverrideConfig}, OverrideStates)
    \/ InitWith({1}, StartDateConfigs, {NoState})
NextEntity == Step({1}, Users, Times \cup {None}, BOOLEAN \X (0..MaxOverdueDays), MaxCalls, MaxNow)
SpecEntity == InitEntity /\ [][NextEntity]_vars

\* one visible entity that starts fresh or from a state it wrote while overdue,
\* every argument of every operation
InitCalls == InitWith({1}, EntityConfigs, {NoState, Recorded(DateStr(3), DateTimeStr(1), Bool(TRUE))})
SpecCalls == InitCalls /\ [][NextEntity]_vars

\* the installation without restarts, where teardown is also run again for a
\* removed entity and the operations are also called on its object
InitTeardown == InitWith(EntityIds, InstallConfigs, {NoState})
NextTeardown ==
    \/ \E e \in EntityIds : async_added_to_hass(e)
    \/ \E e \in EntityIds : async_added_to_hass_resume(e)
    \/ \E e \in EntityIds : async_will_remove_from_hass(e)
    \/ \E e \in EntityIds : async_will_remove_from_hass_resume(e)
    \/ \E e \in EntityIds : assign_user(e, 1, MaxCalls, 0)
    \/ \E e \in EntityIds : set_chore_completed(e, None, MaxCalls, 0)
    \/ \E e \in EntityIds : mark_overdue(e, TRUE, 1, MaxCalls, 0)
    \/ \E e \in EntityIds : calculate_next_due_date(e, MaxCalls, 0)
SpecTeardown == InitTeardown /\ [][NextTeardown]_vars

\* the configuration flow and the functions of config_flow.py, no entity.
\* Submitted dates: none, "", "0", "0/0", "02/28", "2/8", "02/30", "13/01",
\* other text
DateTexts ==
    { Missing, Text(0), NumText(0), ZeroSlashZero, MonthDayStr(2, 28), MonthDayShort(2, 8),
      MonthDayStr(2, 30), MonthDayStr(13, 1), Text(1) }
DetailData ==
    [ day_of_month : {Missing} \cup {Number(n) : n \in -1..MaxFormNumber},
      date : DateTexts,
      weekday_order_number :
          {Missing} \cup {NumText(n) : n \in 0..MaxFormNumber}
                    \cup {Number(n) : n \in 0..MaxFormNumber},
      chore_day : {Missing, NumText(0), Weekday},
      user : {Missing, UserId} ]
UserData == {[NoData EXCEPT !.date = x] : x \in DateTexts}

InitWizard == InitWith({}, {Options(FALSE, FALSE, "every-n-days")}, {NoState})
NextWizard ==
    \/ async_step_user(FALSE, NoData)
    \/ \E user_input \in UserData : async_step_user(TRUE, user_input)
    \/ \E data \in DetailData : call_validate_config(data)
    \/ resubmit_validate_config
    \/ \E frequency \in FrequencyOptions : call_detail_config_schema(frequency)
SpecWizard == InitWizard /\ [][NextWizard]_vars

\* ------------------------------------------------------------------ claims
Hidden(e) == config[e].hidden
Started == {"active", "await_remove", "removed", "remove_failed"}

\* C1: a chore entity configured with hidden = true is never in the Calendar
\* Aggregator's registry, whatever calls and other entities' startups and
\* teardowns happen
C1_HiddenNeverInCalendar ==
    \A e \in EntityIds : Hidden(e) => e \notin hass.calendar_entities

\* a hidden entity has started and has been the target of a mutating call
\* while the calendar holds another entity
C1_Witness ==
    \E e \in EntityIds :
        /\ Hidden(e) /\ pc[e] = "active" /\ last_call[1] = e
        /\ hass.calendar_present /\ hass.calendar_entities # {}

\* C2: once teardown (async_will_remove_from_hass) has completed, the entity is
\* neither in the platform's registry nor in the Calendar Aggregator's registry
C2_TeardownRemovesFromCalendar ==
    \A e \in EntityIds :
        pc[e] = "removed" =>
            e \notin hass.sensor_platform /\ e \notin hass.calendar_entities

C4_Created ==
    /\ hass.calendars_created <= 1
    /\ hass.forward_entry_setups = hass.calendars_created
    /\ hass.calendar_present <=> hass.calendars_created = 1

C4_Creation ==
    /\ hass'.calendars_created > hass.calendars_created =>
           /\ ~hass.calendar_present
           /\ \E e \in EntityIds :
                  ~Hidden(e) /\ pc[e] = "await_last_state" /\ pc'[e] = "active"
    /\ restarts' = restarts => hass.calendar_entities \subseteq hass'.calendar_entities

C5_OneWritePerCall ==
    /\ hass.state_writes = last_call[3]
    /\ \A e \in EntityIds : last_call[1] = e => chore[e]._last_updated = now

\* two mutating calls, the second calculate_next_due_date at a later time, have
\* been made
C5_Witness ==
    /\ hass.state_writes = 2
    /\ last_call[1] = 1 /\ last_call[2] = "calculate_next_due_date"
    /\ chore[1]._last_updated = now /\ now > 0

\* C6: for a non-blank frequency, set_chore_completed(t) followed immediately
\* by calculate_next_due_date leaves next_due_date present and strictly after
\* the date of t
C6_NextDueAfterCompletion ==
    [][ \A e \in EntityIds :
            ( /\ last_call[1] = e /\ last_call[2] = "set_chore_completed"
              /\ config[e].frequency \notin BlankFamily
              /\ calculate_next_due_date(e, MaxCalls, MaxNow) )
            => /\ chore'[e]._next_due_date # None
               /\ chore'[e]._next_due_date > DateOf(chore[e].last_completed) ]_vars

\* C7: frequency every-n-days, period 3, start_date 2024-01-01 (day 0), never
\* completed: calculate_next_due_date yields 2024-01-04 (day 3)
C7_EveryThreeDays ==
    [][ \A e \in EntityIds :
            ( /\ config[e].frequency = "every-n-days"
              /\ config[e].period = 3
              /\ config[e].start_date = DateStr(0)
              /\ chore[e].last_completed = None
              /\ calculate_next_due_date(e, MaxCalls, MaxNow) )
            => chore'[e]._next_due_date = 3 ]_vars

\* C8: when the schedule computation yields absent, calculate_next_due_date
\* leaves next_due_date as it was before the call
C8_AbsentKeepsNextDue ==
    [][ \A e \in EntityIds :
            ( /\ helpers_calculate_next_due_date(
                     [frequency |-> chore[e]._frequency], chore[e].last_completed) = None
              /\ calculate_next_due_date(e, MaxCalls, MaxNow) )
            => chore'[e]._next_due_date = chore[e]._next_due_date ]_vars

\* C9: the overdue flag of an entity configured manual = true is false in
\* every reachable state
C9_ManualNeverOverdue ==
    \A e \in EntityIds : config[e].manual => chore[e]._overdue = Bool(FALSE)

\* C10: startup from a snapshot whose date attributes are missing or malformed
\* completes: no error escapes, the field is absent, the entity is registered
StartupPending == {"unused", "constructed", "await_last_state"}
Malformed(x) == x.kind \notin {"date_str", "datetime_str"}
C10_RestoreTolerates ==
    \A e \in EntityIds :
        /\ pc[e] # "startup_failed"
        /\ ( /\ pc[e] = "active" /\ last_call[1] = 0 /\ stored[e].present
             /\ ~Hidden(e) )
           => /\ e \in hass.calendar_entities
              /\ Malformed(stored[e].attributes["next_date"]) =>
                     chore[e]._next_due_date = None
              /\ Malformed(stored[e].attributes["last_completed"]) =>
                     chore[e].last_completed = None

\* C11: in every reachable state of an entity (constructed, restored from a
\* snapshot the entity wrote, after any mutating operation) the primary value
\* native_value equals the cached days field
C11_NativeValueIsDays ==
    \A e \in EntityIds : native_value(chore[e]) = chore[e]._days

\* C12: the override strings survive the round trip through the recorded
\* state: the attribute map an entity writes carries its three strings, and an
\* entity restored from a recorded state holds that state's three strings, the
\* empty string for a key the state lacks
C12_OverridesRoundTrip ==
    \A e \in EntityIds :
        pc[e] = "active" /\ stored[e].present =>
            LET recorded(k) == IF stored[e].attributes[k] = Missing THEN Text(0)
                               ELSE stored[e].attributes[k]
            IN  /\ chore[e]._offset_dates = recorded("offset_dates")
                /\ chore[e]._add_dates = recorded("add_dates")
                /\ chore[e]._remove_dates = recorded("remove_dates")

\* an entity that held three non-empty strings other than its configured
\* ones wrote them, the installation restarted, and the new entity has been
\* restored from that state
C12_Witness ==
    /\ restarts = 1 /\ pc[1] = "active"
    /\ last_call[1] = 0 /\ last_call[3] > 0
    /\ stored[1].attributes["last_updated"] = JNull
    /\ chore[1]._offset_dates = Text(4) /\ config[1].offset_dates = Text(3)
    /\ chore[1]._add_dates = Text(5) /\ chore[1]._remove_dates = Text(3)

\* C17: after startup, with or without a recorded state and whatever
\* last_updated that state carries, the entity's last_updated is absent until
\* the first mutating operation: while no mutating call has been made since
\* the installation (re)started, every entity's last_updated is absent
C17_LastUpdatedAbsentAfterStartup ==
    last_call[1] = 0 => \A e \in EntityIds : chore[e]._last_updated = None

\* an entity has started again from a recorded state that carries a
\* last_updated stamp, and has not been called since
C17_Witness ==
    /\ restarts = 1 /\ pc[1] = "active" /\ last_call[1] = 0
    /\ stored[1].attributes["last_updated"].kind = "datetime_str"
    /\ chore[1].last_completed # None

\* C18: set_chore_completed changes only last_completed (to completed_at, or
\* to the current time when completed_at is not given) and last_updated; the
\* entity's other fields, the other entities and the calendar registry are as
\* they were
C18_CompletionFrame ==
    [][ \A e \in EntityIds :
            ( /\ last_call'[1] = e /\ last_call'[2] = "set_chore_completed"
              /\ last_call'[3] = last_call[3] + 1 )
            => /\ chore' = [chore EXCEPT ![e] =
                               [chore[e] EXCEPT !.last_completed = chore'[e].last_completed,
                                                !._last_updated = chore'[e]._last_updated]]
               /\ hass'.calendar_entities = hass.calendar_entities
               /\ hass'.calendar_present = hass.calendar_present
               /\ chore'[e]._last_updated = now'
               /\ \A completed_at \in Times \cup {None} :
                      set_chore_completed(e, completed_at, MaxCalls, MaxNow) =>
                          IF completed_at # None
                          THEN chore'[e].last_completed = completed_at
                          ELSE /\ now <= chore'[e].last_completed
                               /\ chore'[e].last_completed <= now' ]_vars

\* an overdue entity with a next due date and an assigned user has been
\* completed without a completed_at, at a later time than its last completion
C18_Witness ==
    /\ last_call[1] = 1 /\ last_call[2] = "set_chore_completed"
    /\ chore[1]._overdue = Bool(TRUE) /\ chore[1]._next_due_date # None
    /\ chore[1].last_completed = 1 /\ chore[1]._last_updated = 1
    /\ stored[1].attributes["last_completed"] = DateTimeStr(1)

\* C19: in each mutating operation the field is assigned first, then the state
\* is written, then last_updated is stamped: the attribute map a call
\* publishes is that of the entity as the call leaves it, except that its
\* last_updated is the stamp the entity had before the call (absent for the
\* first call after startup)
C19_WriteBeforeStamp ==
    [][ \A e \in EntityIds :
            (last_call'[1] = e /\ last_call'[3] = last_call[3] + 1)
            => /\ stored'[e].present
               /\ stored'[e].attributes =
                      extra_state_attributes(
                          [chore'[e] EXCEPT !._last_updated = chore[e]._last_updated])
               /\ last_call[1] = 0 => stored'[e].attributes["last_updated"] = JNull ]_vars

\* a second call, mark_overdue at a later time than the first, has published
\* the new overdue flag with the first call's stamp
C19_Witness ==
    /\ last_call = <<1, "mark_overdue", 2>>
    /\ chore[1]._overdue = Bool(TRUE) /\ chore[1]._last_updated = 1
    /\ stored[1].attributes["overdue"] = Bool(TRUE)
    /\ stored[1].attributes["last_updated"] = DateTimeStr(0)

\* a start_date that to_date converts to a date
Convertible(x) == x.kind \in {"date", "date_str"}

\* C20: construction of a Chore completes for every configured start_date
\* (absent, a date, an ISO date string, malformed text, a value of another
\* type); when the value cannot be converted the start date is absent and the
\* ChoreState fields have their initial values
C20_ConstructionCompletes ==
    \A e \in EntityIds :
        /\ pc[e] # "construct_failed"
        /\ pc[e] = "constructed" /\ ~Convertible(config[e].start_date) =>
               /\ chore[e]._start_date = None
               /\ chore[e]._next_due_date = None /\ chore[e]._last_updated = None
               /\ chore[e].last_completed = None /\ chore[e]._days = JNull
               /\ chore[e]._overdue = Bool(FALSE) /\ chore[e]._overdue_days = JNull
               /\ chore[e]._user = None

\* C13: a configuration entry is created only after the general step has been
\* submitted, the flow has moved to the 'detail' step and the detail step's
\* validation has accepted the input; a submission with no user input
\* re-displays the form and creates nothing
C13_EntryOnlyAfterDetail ==
    [][ /\ (wizard'.entry.present /\ ~wizard.entry.present) =>
               /\ wizard.step = "detail"
               /\ _validate_config(wizard'.entry.data).exc = ""
        /\ async_step_user(FALSE, NoData) =>
               /\ wizard'.entry = wizard.entry
               /\ wizard'.result = "form" /\ wizard'.step = "user" ]_vars

\* a submitted date that is a valid month/day of the calendar, and one that the
\* validation has to reject
ParsesAsMonthDay(x) ==
    /\ x.kind \in {"month_day_str", "month_day_short"}
    /\ (x.v \div 100) \in 1..12
    /\ (x.v % 100) >= 1
    /\ (x.v % 100) <= (IF (x.v \div 100) = 2 THEN 28
                       ELSE IF (x.v \div 100) \in {4, 6, 9, 11} THEN 30 ELSE 31)
BadDate(x) == x \notin {Missing, Text(0), NumText(0), ZeroSlashZero} /\ ~ParsesAsMonthDay(x)

\* the submitted data with the four sentinel values replaced by None
Normalised(data) ==
    [data EXCEPT
        !.day_of_month = IF @ # Missing /\ @.v < 1 THEN JNull ELSE @,
        !.date = IF @ \in {Text(0), NumText(0), ZeroSlashZero} THEN JNull ELSE @,
        !.weekday_order_number = IF @ # Missing /\ @.v = 0 THEN JNull ELSE @,
        !.chore_day = IF @ = NumText(0) THEN JNull ELSE @]

\* C14: _validate_config returns without raising and maps day_of_month < 1,
\* date "" / "0" / "0/0", weekday_order_number 0 and chore_day "0" to absent;
\* every other key, user included, keeps its submitted value (for submitted
\* data whose date is not one the validation rejects)
C14_ValidationNormalises ==
    (wizard.call.op = "_validate_config" /\ ~BadDate(wizard.call.data.date)) =>
        /\ wizard.call.out.exc = ""
        /\ wizard.call.out.data = Normalised(wizard.call.data)

\* the validation has returned for data with day_of_month 0, date "0/0",
\* weekday_order_number "0", chore_day "0" and a user
C14_Witness ==
    /\ wizard.call.op = "_validate_config"
    /\ wizard.call.data = [day_of_month |-> Number(0), date |-> ZeroSlashZero,
                           weekday_order_number |-> NumText(0), chore_day |-> NumText(0),
                           user |-> UserId]
    /\ wizard.call.out.data = [day_of_month |-> JNull, date |-> JNull,
                               weekday_order_number |-> JNull, chore_day |-> JNull,
                               user |-> UserId]

\* _validate_config alone: a date it has to reject raises the error
\* "month_day", a date that parses is accepted
C15_ValidationRejects ==
    wizard.call.op = "_validate_config" =>
        /\ BadDate(wizard.call.data.date) =>
               wizard.call.out.exc = "SchemaFlowError" /\ wizard.call.out.error = "month_day"
        /\ ParsesAsMonthDay(wizard.call.data.date) => wizard.call.out.exc = ""

\* C15: a submitted date that is not empty, "0" or "0/0" and is not a valid
\* MM/DD date makes the validation fail with the error "month_day", and no
\* configuration entry is created with it; a date that parses is accepted
C15_BadDateRejected ==
    /\ C15_ValidationRejects
    /\ wizard.entry.present => ~BadDate(wizard.entry.data.date)

\* the unit label and the field keys of a frequency, by its family
UnitOf(frequency) ==
    CASE frequency \in DailyFamily -> "day(s)"
      [] frequency \in WeeklyFamily -> "week(s)"
      [] frequency \in MonthlyFamily -> "month(s)"
      [] frequency \in YearlyFamily -> "year(s)"
      [] OTHER -> ""
ExpectedKeys(frequency) ==
    IF frequency \in BlankFamily THEN {}
    ELSE {"period", "start_date"}
         \cup (IF frequency \in YearlyFamily THEN {"date"} ELSE {"first_month", "last_month"})
         \cup (IF frequency \in MonthlyFamily
               THEN {"day_of_month", "weekday_order_number", "force_week_numbers",
                     "due_date_offset"}
               ELSE {})
         \cup (IF frequency \in WeeklyFamily \cup MonthlyFamily THEN {"chore_day"} ELSE {})
         \cup (IF frequency \in WeeklyFamily THEN {"first_week"} ELSE {})

\* C16: for every frequency detail_config_schema completes and returns the
\* fields of the frequency's family: none for the blank family; otherwise a
\* required start_date, for the daily, weekly, monthly and yearly families a
\* required period 1..1000 with the family's unit label, date only for yearly,
\* day_of_month, weekday_order_number, force_week_numbers and due_date_offset
\* only for monthly, chore_day only for weekly or monthly, a required
\* first_week only for weekly, first_month and last_month unless yearly
C16_DetailFields ==
    wizard.call.op = "detail_config_schema" =>
        LET frequency == wizard.call.frequency
            fields == wizard.call.out.fields
        IN  /\ wizard.call.out.exc = ""
            /\ {f.key : f \in fields} = ExpectedKeys(frequency)
            /\ frequency \notin BlankFamily =>
                   /\ Field("period", TRUE, 1, 1000, UnitOf(frequency)) \in fields
                   /\ Field("start_date", TRUE, 0, 0, "") \in fields
            /\ \A f \in fields : f.required <=> f.key \in {"period", "start_date", "first_week"}
\* the lifecycle phase of an entity: restoring 0, active 1, torn down 2
Phase(p) ==
    IF p \in {"await_remove", "removed", "remove_failed"} THEN 2
    ELSE IF p = "active" THEN 1
    ELSE 0

\* a step that is a call of a mutating operation on entity e
IsCallOn(e) == last_call' # last_call /\ last_call'[1] = e

\* C21: an entity's lifecycle moves only forward through restoring, active,
\* removed; once teardown has completed, no call of assign_user,
\* set_chore_completed, mark_overdue or calculate_next_due_date changes the
\* entity's state or triggers a host state write, and the entity is never
\* added to the calendar registry again
C21_RemovedIsFinal ==
    [][\A e \in EntityIds :
          /\ Phase(pc'[e]) >= Phase(pc[e])
          /\ (pc[e] = "removed" /\ IsCallOn(e)) =>
                 /\ chore'[e] = chore[e]
                 /\ stored'[e] = stored[e]
                 /\ hass'.state_writes = hass.state_writes
          /\ (Phase(pc[e]) = 2 /\ e \notin hass.calendar_entities) =>
                 e \notin hass'.calendar_entities]_vars

\* a step in which the teardown of entity e ends
TeardownEnds(e) == pc[e] = "await_remove" /\ pc'[e] # "await_remove"

\* C22: teardown completes without error in every reachable state of the
\* installation, also for a hidden entity where no calendar was ever created
\* and for an entity whose identifier is no longer in the sensor platform
\* registry (a second teardown); in those two cases it leaves the calendar
\* registry and the other entities unchanged
C22_TeardownCompletes ==
    [][\A e \in EntityIds : TeardownEnds(e) =>
          /\ pc'[e] = "removed"
          /\ ((chore[e]._hidden /\ ~hass.calendar_present) \/ e \notin hass.sensor_platform) =>
                 /\ hass'.calendar_present = hass.calendar_present
                 /\ hass'.calendar_entities = hass.calendar_entities
                 /\ \A o \in EntityIds \ {e} :
                        chore'[o] = chore[o] /\ pc'[o] = pc[o] /\ stored'[o] = stored[o]]_vars

\* C23: detail-step validation is idempotent: when a mapping that
\* _validate_config accepted is given to it again, it returns the same mapping
\* without raising
C23_ValidationIdempotent ==
    wizard.call.op = "_validate_config again" =>
        /\ wizard.call.out.exc = ""
        /\ wizard.call.out.data = wizard.call.data

====
